---- MODULE Spec2Model ----
(***************************************************************************)
(* Native secret provisioning of NoghreSod-Android:                        *)
(*   app/src/main/cpp/src/keys.cpp     KeyProvider (layered pipeline)       *)
(*   app/src/main/cpp/native-keys.cpp  NativeKeyManager (XOR merchant id)   *)
(*   app/src/main/cpp/native_keys.cpp  NativeKeys (literal values)          *)
(* A std::string / byte array is a sequence of bytes 0..255; a jstring is   *)
(* the sequence of bytes NewStringUTF copied.                               *)
(***************************************************************************)
EXTENDS Naturals, Sequences, FiniteSets

VARIABLES
    \* ---- the XOR transform applied to its own output (SpecXor) ----
    xP, xK, xOnce, xTwice, xStage,
    \* ---- NativeKeyManager and NativeKeys, one caller (SpecNative) ----
    nDevice, mPayload, mPc, mEntry, mI, decrypted, result, mRet, mReads, mWrites,
    \* ---- KeyProvider, concurrent callers (Spec) ----
    deviceId,       \* the identity DeviceIdentitySource gives on this device
    tables,         \* the embedded read-only arrays of keys.cpp
    provision,      \* what the build step embedded: kind and plaintexts
    budget,         \* the calls each thread makes in this run
    cachedKey, keyReady, initLock, derivations, coldCallers,
    pc, entry, ncalls, deviceKey, xorDecrypted, base64Decoded, aesDecrypted,
    jniStr, ret, failedAt, trace

xorVars == <<xP, xK, xOnce, xTwice, xStage>>
nativeVars == <<nDevice, mPayload, mPc, mEntry, mI, decrypted, result, mRet, mReads, mWrites>>
envVars == <<deviceId, tables, provision, budget>>
cacheVars == <<cachedKey, keyReady, initLock, derivations, coldCallers>>
threadVars == <<pc, entry, ncalls, deviceKey, xorDecrypted, base64Decoded, aesDecrypted,
                jniStr, ret, failedAt, trace>>
keyVars == <<envVars, cacheVars, threadVars>>
vars == <<xorVars, nativeVars, keyVars>>

(***************************************************************************)
(* Bounds of the model.                                                    *)
(***************************************************************************)
\* longest payload / key the XOR transform is applied to in SpecXor
MaxXorLen == 2
\* longest embedded payload getMerchantId is run on in SpecMerchant
MaxPayloadLen == 3

(***************************************************************************)
(* Bytes.                                                                  *)
(***************************************************************************)
RECURSIVE XorBits(_, _, _)
XorBits(a, b, n) ==
    IF n = 0 THEN 0
    ELSE (((a % 2) + (b % 2)) % 2) + 2 * XorBits(a \div 2, b \div 2, n - 1)

\* a faulty variant of XorByte: addition modulo 256 instead of exclusive-or
XorByte_add(a, b) == (a + b) % 256

\* a ^ b on unsigned char
XorByte(a, b) == XorBits(a, b, 8)

\* for (i = 0; i < size; i++) out[i] = payload[i] ^ key[i % keySize];
\* (sequences are 1-based: index i of the code is i + 1 here)
XorTransform(payload, key) ==
    [i \in 1..Len(payload) |-> XorByte(payload[i], key[((i - 1) % Len(key)) + 1])]

\* static const unsigned char XOR_KEY[]
XOR_KEY == <<66, 126, 193, 147, 53, 169, 45>>
XOR_KEY_SIZE == Len(XOR_KEY)

\* static const unsigned char ENCRYPTED_MERCHANT_ID[]
ENCRYPTED_MERCHANT_ID ==
    <<122, 31, 140, 61, 146, 78, 21, 103, 210, 57, 91, 138, 28, 79, 115, 161,
      40, 95, 157, 66, 108, 225, 55, 139, 42, 94, 155, 65, 110, 223, 56, 141,
      41, 92, 152, 64, 109, 224, 54, 140>>

\* the bytes of a C string: everything before the first NUL (std::string(const
\* char*), std::string::c_str() read by NewStringUTF)
RECURSIVE CStr(_)
CStr(buf) ==
    IF buf = <<>> \/ Head(buf) = 0 THEN <<>>
    ELSE <<Head(buf)>> \o CStr(Tail(buf))

\* memset(p, 0, n) on a buffer: its first n bytes become zero
Memset0(buf, n) == [i \in 1..Len(buf) |-> IF i <= n THEN 0 ELSE buf[i]]

AllZero(buf) == \A i \in 1..Len(buf) : buf[i] = 0

\* sequences over S of length lo..hi
SeqsOf(S, lo, hi) == UNION {[1..n -> S] : n \in lo..hi}

\* byte values the payloads and keys of the bounded runs are drawn from: the
\* first bytes of XOR_KEY (so that payload[i] = key[i mod 7] happens), a payload
\* byte of the source, 0 and 255
ByteSample == {0, 66, 126, 193, 122, 255}


(***************************************************************************)
(* Embedded constants of keys.cpp and the literals of the other two files. *)
(***************************************************************************)
\* const uint8_t ENCRYPTED_API_KEY[] as shipped in the source
ENCRYPTED_API_KEY ==
    <<122, 107, 95, 108, 105, 118, 101, 95, 81, 104, 95, 105, 107, 110, 103, 90>>

\* const uint8_t ENCRYPTED_API_URL[] as shipped in the source
ENCRYPTED_API_URL == <<104, 116, 116, 112, 115, 58, 47, 47>>

\* const uint8_t OBFUSCATION_KEY[]
OBFUSCATION_KEY ==
    <<77, 89, 75, 69, 89, 49, 50, 51, 52, 53, 54, 55, 56, 57, 48>>

\* "https://api.noghresod.ir/v1/": the URL the source says ENCRYPTED_API_URL
\* stands for, and the literal NativeKeys.getApiUrl returns
API_URL_TEXT ==
    <<104, 116, 116, 112, 115, 58, 47, 47, 97, 112, 105, 46, 110, 111, 103, 104,
      114, 101, 115, 111, 100, 46, 105, 114, 47, 118, 49, 47>>

\* "api_key_from_native": the literal NativeKeyManager.getApiKey returns
API_KEY_TEXT ==
    <<97, 112, 105, 95, 107, 101, 121, 95, 102, 114, 111, 109, 95, 110, 97, 116,
      105, 118, 101>>

\* the string literals of native_keys.cpp, by entry point
NativeKeysLiteral(e) ==
    CASE e = "getApiUrl" -> API_URL_TEXT
      [] e = "getCertificatePinSha" ->
            <<115, 104, 97, 50, 53, 54, 47, 73, 118, 56, 80, 107, 113, 107, 120,
              55, 69, 48, 73, 120, 69, 66, 102, 57, 88, 57, 115, 76, 101, 74, 87,
              54, 122, 73, 80, 103, 57, 84, 74, 100, 54, 75, 51, 109, 78, 102, 87,
              53, 108, 81, 61>>
      [] e = "getBackupCertificatePin" ->
            <<115, 104, 97, 50, 53, 54, 47, 108, 70, 81, 119, 71, 87, 65, 100, 57,
              54, 80, 51, 120, 104, 56, 83, 106, 55, 102, 86, 79, 66, 72, 109, 120,
              90, 78, 48, 65, 56, 100, 47, 122, 74, 71, 122, 50, 102, 75, 74, 72,
              78, 99, 61>>
      [] e = "getPaymentGatewayKey" ->
            <<48, 48, 48, 48, 48, 48, 48, 48, 45, 48, 48, 48, 48, 45, 48, 48, 48,
              48, 45, 48, 48, 48, 48, 45, 48, 48, 48, 48, 48, 48, 48, 48, 48, 48,
              48, 48>>
      [] e = "getFirebaseKey" ->
            <<65, 73, 122, 97, 83, 121, 68, 117, 109, 109, 121, 75, 101, 121, 70,
              111, 114, 84, 101, 115, 116, 105, 110, 103, 49, 50, 51, 52, 53, 54,
              55, 56, 57>>
      [] e = "getEncryptionKey" ->
            <<89, 111, 117, 114, 83, 116, 114, 111, 110, 103, 69, 110, 99, 114,
              121, 112, 116, 105, 111, 110, 75, 101, 121, 72, 101, 114, 101, 51,
              50, 66, 121, 116, 101, 115, 66, 97, 115, 101, 54, 52>>

NativeKeysEntries ==
    {"getApiUrl", "getCertificatePinSha", "getBackupCertificatePin",
     "getPaymentGatewayKey", "getFirebaseKey", "getEncryptionKey"}

\* the device identity the payloads are provisioned for ("device-123") and
\* another device's ("device-456")
ProvisionedIdentity == <<100, 101, 118, 105, 99, 101, 45, 49, 50, 51>>
OtherIdentity == <<100, 101, 118, 105, 99, 101, 45, 52, 53, 54>>
Identities == {ProvisionedIdentity, OtherIdentity}

(***************************************************************************)
(* The pipeline stages keys.cpp calls.  obfuscation.h, encryption.h and    *)
(* device_binding.h are not part of the sources at hand; the stages follow *)
(* the design document: byte-wise XOR, standard base64, a deterministic    *)
(* key derivation from the device identity, and authenticated decryption   *)
(* of nonce || data || tag that releases no plaintext on a tag mismatch.   *)
(* A stage that fails throws (keys.cpp catches std::exception): its value  *)
(* is [ok |-> FALSE].  The cipher is a scaled-down one whose tag binds the *)
(* key, the nonce and the data; the key has KeyLen bytes.                  *)
(***************************************************************************)
\* bytes of the derived key (32 in the design, scaled down)
KeyLen == 2
\* longest provisioned plaintext
MaxPlainLen == 2

Thrown == [ok |-> FALSE, val |-> <<>>]
Returned(v) == [ok |-> TRUE, val |-> v]

RECURSIVE SumBytes(_)
SumBytes(s) == IF s = <<>> THEN 0 ELSE Head(s) + SumBytes(Tail(s))

\* xorDecrypt(data, size, key, keySize)
xorDecrypt(data, key) == XorTransform(data, key)

\* the base64 alphabet: 6-bit value -> character
B64Char(v) ==
    IF v < 26 THEN 65 + v
    ELSE IF v < 52 THEN 97 + (v - 26)
    ELSE IF v < 62 THEN 48 + (v - 52)
    ELSE IF v = 62 THEN 43 ELSE 47

\* character -> 6-bit value; 64 for a character outside the alphabet ('=' too)
B64Val(c) ==
    IF c \in 65..90 THEN c - 65
    ELSE IF c \in 97..122 THEN (c - 97) + 26
    ELSE IF c \in 48..57 THEN (c - 48) + 52
    ELSE IF c = 43 THEN 62
    ELSE IF c = 47 THEN 63 ELSE 64

B64Pad == 61

\* the build step's encoder: 3-byte groups to 4-character groups, '=' padding
RECURSIVE base64Encode(_)
base64Encode(b) ==
    IF b = <<>> THEN <<>>
    ELSE IF Len(b) = 1 THEN
        LET n == b[1] * 16
        IN  <<B64Char(n \div 64), B64Char(n % 64), B64Pad, B64Pad>>
    ELSE IF Len(b) = 2 THEN
        LET n == (b[1] * 256 + b[2]) * 4
        IN  <<B64Char(n \div 4096), B64Char((n \div 64) % 64), B64Char(n % 64), B64Pad>>
    ELSE
        LET n == (b[1] * 65536) + (b[2] * 256) + b[3]
        IN  <<B64Char(n \div 262144), B64Char((n \div 4096) % 64),
              B64Char((n \div 64) % 64), B64Char(n % 64)>>
            \o base64Encode(SubSeq(b, 4, Len(b)))

\* base64Decode(text): throws on a length that is no multiple of 4, on a
\* character outside the alphabet, and on padding anywhere but the end
RECURSIVE base64Decode(_)
base64Decode(t) ==
    IF t = <<>> THEN Returned(<<>>)
    ELSE IF Len(t) % 4 # 0 THEN Thrown
    ELSE
        LET v == [i \in 1..4 |-> B64Val(t[i])]
            last == Len(t) = 4
            n4 == (v[1] * 262144) + (v[2] * 4096) + (v[3] * 64) + v[4]
            n3 == (v[1] * 4096) + (v[2] * 64) + v[3]
            n2 == (v[1] * 64) + v[2]
        IN  IF \A i \in 1..4 : v[i] < 64 THEN
                LET r == base64Decode(SubSeq(t, 5, Len(t)))
                IN  IF r.ok
                    THEN Returned(<<n4 \div 65536, (n4 \div 256) % 256, n4 % 256>> \o r.val)
                    ELSE Thrown
            ELSE IF last /\ v[1] < 64 /\ v[2] < 64 /\ v[3] < 64 /\ t[4] = B64Pad THEN
                Returned(<<n3 \div 1024, (n3 \div 4) % 256>>)
            ELSE IF last /\ v[1] < 64 /\ v[2] < 64 /\ t[3] = B64Pad /\ t[4] = B64Pad THEN
                Returned(<<n2 \div 16>>)
            ELSE Thrown

\* the static salt / context of the derivation ("url-context")
DeriveContext == <<117, 114, 108, 45, 99, 111, 110, 116, 101, 120, 116>>

\* derive(deviceIdentity, context): KeyLen bytes, deterministic
DeriveKey(identity, context) ==
    [i \in 1..KeyLen |->
        ((SumBytes(identity) * ((2 * i) + 1)) + SumBytes(context) + i) % 256]

\* the authentication tag over key, nonce and data
AuthTag(key, nonce, data) ==
    [i \in 1..Len(key) |-> (key[i] + nonce + (i * SumBytes(data))) % 256]

KeyStream(key, nonce, i) == XorByte(key[((i - 1) % Len(key)) + 1], nonce)

\* the build step's cipher: nonce || data || tag
aesEncrypt(plain, key, nonce) ==
    LET data == [i \in 1..Len(plain) |-> XorByte(plain[i], KeyStream(key, nonce, i))]
    IN  <<nonce>> \o data \o AuthTag(key, nonce, data)

\* aesDecrypt(ciphertext, key): verifies the tag first; throws on a short
\* input, an unusable key or a tag mismatch, releasing no plaintext
aesDecrypt(ct, key) ==
    IF key = <<>> \/ Len(ct) < 1 + Len(key) THEN Thrown
    ELSE
        LET nonce == ct[1]
            data == SubSeq(ct, 2, Len(ct) - Len(key))
            tag == SubSeq(ct, (Len(ct) - Len(key)) + 1, Len(ct))
        IN  IF tag # AuthTag(key, nonce, data) THEN Thrown
            ELSE Returned([i \in 1..Len(data) |->
                              XorByte(data[i], KeyStream(key, nonce, i))])

\* the build step: encrypt for the provisioned device, encode, obfuscate
Provisioned(plain, nonce) ==
    XorTransform(
        base64Encode(aesEncrypt(plain, DeriveKey(ProvisionedIdentity, DeriveContext), nonce)),
        OBFUSCATION_KEY)

\* the same with the last bit of the tag flipped before encoding
Tampered(plain, nonce) ==
    LET ct == aesEncrypt(plain, DeriveKey(ProvisionedIdentity, DeriveContext), nonce)
        bad == [ct EXCEPT ![Len(ct)] = XorByte(ct[Len(ct)], 1)]
    IN  XorTransform(base64Encode(bad), OBFUSCATION_KEY)

(***************************************************************************)
(* SpecXor: the transform applied twice with the same key.                 *)
(***************************************************************************)
XorInit ==
    /\ xP \in SeqsOf(ByteSample, 0, MaxXorLen)
    /\ xK \in SeqsOf(ByteSample, 1, MaxXorLen)
    /\ xOnce = <<>>
    /\ xTwice = <<>>
    /\ xStage = 0

XorIdle ==
    /\ xP = <<>>
    /\ xK = <<0>>
    /\ xOnce = <<>>
    /\ xTwice = <<>>
    /\ xStage = 0

ApplyOnce ==
    /\ xStage = 0
    /\ xOnce' = XorTransform(xP, xK)
    /\ xStage' = 1
    /\ UNCHANGED <<xP, xK, xTwice, nativeVars, keyVars>>

ApplyTwice ==
    /\ xStage = 1
    /\ xTwice' = XorTransform(xOnce, xK)
    /\ xStage' = 2
    /\ UNCHANGED <<xP, xK, xOnce, nativeVars, keyVars>>

(***************************************************************************)
(* SpecNative: NativeKeyManager and NativeKeys called by one caller on a   *)
(* device whose identity is nDevice.  getMerchantId runs one statement per *)
(* step on an embedded payload of length n = MERCHANT_ID_SIZE; decrypted   *)
(* is the n+1-byte stack array, whose cells hold 255 until written (never  *)
(* read before).  mReads / mWrites record the 0-based indices used on the  *)
(* payload, the key and the work buffer.                                   *)
(***************************************************************************)
MERCHANT_ID_SIZE == Len(mPayload)

NativeInit ==
    /\ nDevice \in Identities
    /\ mPayload \in SeqsOf(ByteSample, 1, MaxPayloadLen) \cup {ENCRYPTED_MERCHANT_ID}
    /\ mPc = "idle"
    /\ mEntry = "none"
    /\ mI = 0
    /\ decrypted = <<>>
    /\ result = <<>>
    /\ mRet = <<>>
    /\ mReads = {}
    /\ mWrites = {}

NativeIdle ==
    /\ nDevice = ProvisionedIdentity
    /\ mPayload = ENCRYPTED_MERCHANT_ID
    /\ mPc = "idle"
    /\ mEntry = "none"
    /\ mI = 0
    /\ decrypted = <<>>
    /\ result = <<>>
    /\ mRet = <<>>
    /\ mReads = {}
    /\ mWrites = {}

\* entry; unsigned char decrypted[MERCHANT_ID_SIZE + 1];
getMerchantId_Enter ==
    /\ mPc \in {"idle", "done"}
    /\ mEntry' = "getMerchantId"
    /\ decrypted' = [i \in 1..(MERCHANT_ID_SIZE + 1) |-> 255]
    /\ mI' = 0
    /\ result' = <<>>
    /\ mRet' = <<>>
    /\ mReads' = {}
    /\ mWrites' = {}
    /\ mPc' = "loop"
    /\ UNCHANGED <<nDevice, mPayload, xorVars, keyVars>>

\* decrypted[i] = ENCRYPTED_MERCHANT_ID[i] ^ XOR_KEY[i % XOR_KEY_SIZE];
getMerchantId_Loop ==
    /\ mPc = "loop"
    /\ mI < MERCHANT_ID_SIZE
    /\ decrypted' = [decrypted EXCEPT ![mI + 1] =
                        XorByte(mPayload[mI + 1], XOR_KEY[(mI % XOR_KEY_SIZE) + 1])]
    /\ mReads' = mReads \cup {<<"payload", mI>>, <<"key", mI % XOR_KEY_SIZE>>}
    /\ mWrites' = mWrites \cup {<<"decrypted", mI>>}
    /\ mI' = mI + 1
    /\ UNCHANGED <<nDevice, mPayload, mPc, mEntry, result, mRet, xorVars, keyVars>>

\* loop exit; decrypted[MERCHANT_ID_SIZE] = '\0';
getMerchantId_Terminate ==
    /\ mPc = "loop"
    /\ ~(mI < MERCHANT_ID_SIZE)
    /\ decrypted' = [decrypted EXCEPT ![MERCHANT_ID_SIZE + 1] = 0]
    /\ mWrites' = mWrites \cup {<<"decrypted", MERCHANT_ID_SIZE>>}
    /\ mPc' = "string"
    /\ UNCHANGED <<nDevice, mPayload, mEntry, mI, result, mRet, mReads, xorVars, keyVars>>

\* const std::string result(reinterpret_cast<const char*>(decrypted));
getMerchantId_String ==
    /\ mPc = "string"
    /\ result' = CStr(decrypted)
    /\ mPc' = "memset"
    /\ UNCHANGED <<nDevice, mPayload, mEntry, mI, decrypted, mRet, mReads, mWrites,
                   xorVars, keyVars>>

\* std::memset(decrypted, 0, MERCHANT_ID_SIZE); the array is not read again,
\* so the store is dead and the build may drop it
getMerchantId_Memset ==
    /\ mPc = "memset"
    /\ \E elided \in BOOLEAN :
          decrypted' = IF elided THEN decrypted
                       ELSE Memset0(decrypted, MERCHANT_ID_SIZE)
    /\ mPc' = "return"
    /\ UNCHANGED <<nDevice, mPayload, mEntry, mI, result, mRet, mReads, mWrites,
                   xorVars, keyVars>>

\* return env->NewStringUTF(result.c_str());
getMerchantId_Return ==
    /\ mPc = "return"
    /\ mRet' = CStr(result)
    /\ mPc' = "done"
    /\ UNCHANGED <<nDevice, mPayload, mEntry, mI, decrypted, result, mReads, mWrites,
                   xorVars, keyVars>>

\* NativeKeyManager.getApiKey: return env->NewStringUTF("api_key_from_native");
NativeKeyManager_getApiKey ==
    /\ mPc \in {"idle", "done"}
    /\ mEntry' = "NativeKeyManager.getApiKey"
    /\ mRet' = CStr(API_KEY_TEXT)
    /\ mPc' = "done"
    /\ UNCHANGED <<nDevice, mPayload, mI, decrypted, result, mReads, mWrites,
                   xorVars, keyVars>>

\* NativeKeys.getApiUrl, getCertificatePinSha, getBackupCertificatePin,
\* getPaymentGatewayKey, getFirebaseKey, getEncryptionKey:
\* return env->NewStringUTF(<literal>);
NativeKeys_get(e) ==
    /\ mPc \in {"idle", "done"}
    /\ mEntry' = e
    /\ mRet' = CStr(NativeKeysLiteral(e))
    /\ mPc' = "done"
    /\ UNCHANGED <<nDevice, mPayload, mI, decrypted, result, mReads, mWrites,
                   xorVars, keyVars>>

NativeKeys_getAny == \E e \in NativeKeysEntries : NativeKeys_get(e)

(***************************************************************************)
(* Spec: KeyProvider (keys.cpp) called by concurrent threads.              *)
(*   pc            where each thread is inside its call                    *)
(*   deviceKey, xorDecrypted, base64Decoded, aesDecrypted                  *)
(*                 the locals of decryptApiKey / decryptApiUrl; a          *)
(*                 std::string destructor frees without clearing, so the   *)
(*                 bytes stay as they were until the next call             *)
(*   jniStr        apiKey / apiUrl of the JNI function                     *)
(*   ret           the jstring handed to Java                              *)
(*   failedAt      the stage that threw in this call ("none" if none)      *)
(*   trace         the stages this call has invoked, in order              *)
(***************************************************************************)
\* threads of the application
NumThreads == 2
\* calls the one caller of Spec makes, one after the other
MaxCalls == 2

Threads == 1..NumThreads

PipelineEntries == {"getApiKey", "getApiBaseUrl"}
StubEntries == {"getStripeKey", "getCertificatePins"}

Provisionings ==
    {[kind |-> "shipped", key |-> <<>>, url |-> <<>>]}
    \cup {[kind |-> k, key |-> SubSeq(API_KEY_TEXT, 1, n), url |-> SubSeq(API_URL_TEXT, 1, n)] :
            k \in {"provisioned", "tampered"}, n \in 1..MaxPlainLen}

\* the arrays of the anonymous namespace for a provisioning; each entry
\* carries its own nonce
TablesOf(p) ==
    [ENCRYPTED_API_KEY |->
        CASE p.kind = "shipped" -> ENCRYPTED_API_KEY
          [] p.kind = "provisioned" -> Provisioned(p.key, 1)
          [] p.kind = "tampered" -> Tampered(p.key, 1),
     ENCRYPTED_API_URL |->
        CASE p.kind = "shipped" -> ENCRYPTED_API_URL
          [] p.kind = "provisioned" -> Provisioned(p.url, 2)
          [] p.kind = "tampered" -> Tampered(p.url, 2),
     OBFUSCATION_KEY |-> OBFUSCATION_KEY]

\* the plaintext provisioned for an entry point
PlainOf(e) == IF e = "getApiKey" THEN provision.key ELSE provision.url

\* the embedded array an entry point's pipeline reads
TableOf(e) ==
    IF e = "getApiKey" THEN tables.ENCRYPTED_API_KEY ELSE tables.ENCRYPTED_API_URL

ThreadsFresh ==
    /\ pc = [t \in Threads |-> "idle"]
    /\ entry = [t \in Threads |-> "none"]
    /\ ncalls = [t \in Threads |-> 0]
    /\ deviceKey = [t \in Threads |-> <<>>]
    /\ xorDecrypted = [t \in Threads |-> <<>>]
    /\ base64Decoded = [t \in Threads |-> <<>>]
    /\ aesDecrypted = [t \in Threads |-> <<>>]
    /\ jniStr = [t \in Threads |-> <<>>]
    /\ ret = [t \in Threads |-> <<>>]
    /\ failedAt = [t \in Threads |-> "none"]
    /\ trace = [t \in Threads |-> <<>>]

CacheCold ==
    /\ cachedKey = <<>>
    /\ keyReady = FALSE
    /\ initLock = 0
    /\ derivations = 0
    /\ coldCallers = {}

\* one thread calls, up to MaxCalls times; any device, any provisioning
KeyInit ==
    /\ deviceId \in Identities
    /\ provision \in Provisionings
    /\ tables = TablesOf(provision)
    /\ budget = [t \in Threads |-> IF t = 1 THEN MaxCalls ELSE 0]
    /\ CacheCold
    /\ ThreadsFresh

\* every thread makes one call, all on a cold key cache; the arrays are
\* provisioned with the longest plaintext, on either device, or as shipped
\* (these fail in base64Decode, whatever the device)
KeyInitConcurrent ==
    /\ deviceId \in Identities
    /\ provision \in {p \in Provisionings :
                        \/ p.kind = "shipped" /\ deviceId = ProvisionedIdentity
                        \/ p.kind = "provisioned" /\ Len(p.key) = MaxPlainLen}
    /\ tables = TablesOf(provision)
    /\ budget = [t \in Threads |-> 1]
    /\ CacheCold
    /\ ThreadsFresh

KeyIdle ==
    /\ deviceId = ProvisionedIdentity
    /\ provision = [kind |-> "shipped", key |-> <<>>, url |-> <<>>]
    /\ tables = TablesOf(provision)
    /\ budget = [t \in Threads |-> 0]
    /\ CacheCold
    /\ ThreadsFresh

\* a thread's locals as a call starts: nothing of an earlier call is visible
FreshLocals(t) ==
    /\ deviceKey' = [deviceKey EXCEPT ![t] = <<>>]
    /\ xorDecrypted' = [xorDecrypted EXCEPT ![t] = <<>>]
    /\ base64Decoded' = [base64Decoded EXCEPT ![t] = <<>>]
    /\ aesDecrypted' = [aesDecrypted EXCEPT ![t] = <<>>]
    /\ jniStr' = [jniStr EXCEPT ![t] = <<>>]
    /\ ret' = [ret EXCEPT ![t] = <<>>]
    /\ failedAt' = [failedAt EXCEPT ![t] = "none"]

\* a faulty variant of decrypt_Enter: the plaintext of the thread's last call is
\* kept and handed back without running the pipeline again
decrypt_Enter_cached(t, e) ==
    /\ pc[t] \in {"idle", "done"}
    /\ ncalls[t] < budget[t]
    /\ entry' = [entry EXCEPT ![t] = e]
    /\ ncalls' = [ncalls EXCEPT ![t] = @ + 1]
    /\ IF aesDecrypted[t] # <<>> /\ entry[t] = e
       THEN /\ pc' = [pc EXCEPT ![t] = "decryptReturn"]
            /\ trace' = [trace EXCEPT ![t] = <<>>]
            /\ failedAt' = [failedAt EXCEPT ![t] = "none"]
            /\ ret' = [ret EXCEPT ![t] = <<>>]
            /\ UNCHANGED <<deviceKey, xorDecrypted, base64Decoded, aesDecrypted, jniStr,
                           coldCallers>>
       ELSE /\ FreshLocals(t)
            /\ trace' = [trace EXCEPT ![t] = <<"Derive">>]
            /\ pc' = [pc EXCEPT ![t] = "getDeviceKey"]
            /\ coldCallers' = IF keyReady THEN coldCallers ELSE coldCallers \cup {t}
    /\ UNCHANGED <<envVars, cachedKey, keyReady, initLock, derivations, xorVars, nativeVars>>

\* KeyProvider.getApiKey / getApiBaseUrl is entered, calls decryptApiKey /
\* decryptApiUrl, whose first statement calls getDeviceKey(env)
decrypt_Enter(t, e) ==
    /\ pc[t] \in {"idle", "done"}
    /\ ncalls[t] < budget[t]
    /\ entry' = [entry EXCEPT ![t] = e]
    /\ ncalls' = [ncalls EXCEPT ![t] = @ + 1]
    /\ FreshLocals(t)
    /\ trace' = [trace EXCEPT ![t] = <<"Derive">>]
    /\ pc' = [pc EXCEPT ![t] = "getDeviceKey"]
    /\ coldCallers' = IF keyReady THEN coldCallers ELSE coldCallers \cup {t}
    /\ UNCHANGED <<envVars, cachedKey, keyReady, initLock, derivations, xorVars, nativeVars>>

(***************************************************************************)
(* getDeviceKey (device_binding.h): the derived key is computed lazily,    *)
(* once, under double-checked locking, and kept for the process lifetime.  *)
(***************************************************************************)
\* first check, without the lock
getDeviceKey_Fast(t) ==
    /\ pc[t] = "getDeviceKey"
    /\ IF keyReady
       THEN /\ deviceKey' = [deviceKey EXCEPT ![t] = cachedKey]
            /\ pc' = [pc EXCEPT ![t] = "xorDecrypt"]
       ELSE /\ pc' = [pc EXCEPT ![t] = "gdkLock"]
            /\ UNCHANGED deviceKey
    /\ UNCHANGED <<envVars, cacheVars, entry, ncalls, xorDecrypted, base64Decoded,
                   aesDecrypted, jniStr, ret, failedAt, trace, xorVars, nativeVars>>

getDeviceKey_Lock(t) ==
    /\ pc[t] = "gdkLock"
    /\ initLock = 0
    /\ initLock' = t
    /\ pc' = [pc EXCEPT ![t] = "gdkCheck"]
    /\ UNCHANGED <<envVars, cachedKey, keyReady, derivations, coldCallers, entry, ncalls,
                   deviceKey, xorDecrypted, base64Decoded, aesDecrypted, jniStr, ret,
                   failedAt, trace, xorVars, nativeVars>>

\* second check, under the lock
getDeviceKey_Check(t) ==
    /\ pc[t] = "gdkCheck"
    /\ IF keyReady
       THEN /\ deviceKey' = [deviceKey EXCEPT ![t] = cachedKey]
            /\ initLock' = 0
            /\ pc' = [pc EXCEPT ![t] = "xorDecrypt"]
       ELSE /\ pc' = [pc EXCEPT ![t] = "gdkIdentity"]
            /\ UNCHANGED <<deviceKey, initLock>>
    /\ UNCHANGED <<envVars, cachedKey, keyReady, derivations, coldCallers, entry, ncalls,
                   xorDecrypted, base64Decoded, aesDecrypted, jniStr, ret, failedAt,
                   trace, xorVars, nativeVars>>

\* the platform's identity lookup: it gives deviceId, or fails and the call
\* throws IdentityUnavailable
getDeviceKey_Identity(t) ==
    /\ pc[t] = "gdkIdentity"
    /\ \E available \in BOOLEAN :
          IF available
          THEN /\ pc' = [pc EXCEPT ![t] = "gdkWrite"]
               /\ cachedKey' = <<>>
               /\ UNCHANGED <<initLock, failedAt>>
          ELSE /\ pc' = [pc EXCEPT ![t] = "catch"]
               /\ failedAt' = [failedAt EXCEPT ![t] = "Derive"]
               /\ initLock' = 0
               /\ UNCHANGED cachedKey
    /\ UNCHANGED <<envVars, keyReady, derivations, coldCallers, entry, ncalls, deviceKey,
                   xorDecrypted, base64Decoded, aesDecrypted, jniStr, ret, trace,
                   xorVars, nativeVars>>

\* the derived key is written into the cache byte by byte
getDeviceKey_Write(t) ==
    /\ pc[t] = "gdkWrite"
    /\ LET key == DeriveKey(deviceId, DeriveContext)
       IN  IF Len(cachedKey) < Len(key)
           THEN /\ cachedKey' = Append(cachedKey, key[Len(cachedKey) + 1])
                /\ UNCHANGED pc
           ELSE /\ pc' = [pc EXCEPT ![t] = "gdkPublish"]
                /\ UNCHANGED cachedKey
    /\ UNCHANGED <<envVars, keyReady, initLock, derivations, coldCallers, entry, ncalls,
                   deviceKey, xorDecrypted, base64Decoded, aesDecrypted, jniStr, ret,
                   failedAt, trace, xorVars, nativeVars>>

\* the key is published, the lock released, and the caller gets its copy
getDeviceKey_Publish(t) ==
    /\ pc[t] = "gdkPublish"
    /\ keyReady' = TRUE
    /\ derivations' = derivations + 1
    /\ initLock' = 0
    /\ deviceKey' = [deviceKey EXCEPT ![t] = cachedKey]
    /\ pc' = [pc EXCEPT ![t] = "xorDecrypt"]
    /\ UNCHANGED <<envVars, cachedKey, coldCallers, entry, ncalls, xorDecrypted,
                   base64Decoded, aesDecrypted, jniStr, ret, failedAt, trace,
                   xorVars, nativeVars>>

(***************************************************************************)
(* decryptApiKey / decryptApiUrl after getDeviceKey has returned.          *)
(***************************************************************************)
\* a faulty variant of decryptApi_xorDecrypt: the decoded text goes to aesDecrypt
\* without the base64 stage
decryptApi_xorDecrypt_noDecode(t) ==
    /\ pc[t] = "xorDecrypt"
    /\ trace' = [trace EXCEPT ![t] = Append(@, "Deobfuscate")]
    /\ xorDecrypted' = [xorDecrypted EXCEPT ![t] =
                            xorDecrypt(TableOf(entry[t]), tables.OBFUSCATION_KEY)]
    /\ base64Decoded' = [base64Decoded EXCEPT ![t] = xorDecrypted'[t]]
    /\ pc' = [pc EXCEPT ![t] = "aesDecrypt"]
    /\ UNCHANGED <<envVars, cacheVars, entry, ncalls, deviceKey, aesDecrypted,
                   jniStr, ret, failedAt, xorVars, nativeVars>>

\* std::string xorDecrypted = xorDecrypt(ENCRYPTED_..., sizeof, OBFUSCATION_KEY,
\* OBFUSCATION_KEY_SIZE); building the string may throw std::bad_alloc
decryptApi_xorDecrypt(t) ==
    /\ pc[t] = "xorDecrypt"
    /\ trace' = [trace EXCEPT ![t] = Append(@, "Deobfuscate")]
    /\ \E allocated \in BOOLEAN :
          IF allocated
          THEN /\ xorDecrypted' = [xorDecrypted EXCEPT ![t] =
                      xorDecrypt(TableOf(entry[t]), tables.OBFUSCATION_KEY)]
               /\ pc' = [pc EXCEPT ![t] = "base64Decode"]
               /\ UNCHANGED failedAt
          ELSE /\ failedAt' = [failedAt EXCEPT ![t] = "Deobfuscate"]
               /\ pc' = [pc EXCEPT ![t] = "catch"]
               /\ UNCHANGED xorDecrypted
    /\ UNCHANGED <<envVars, cacheVars, entry, ncalls, deviceKey, base64Decoded,
                   aesDecrypted, jniStr, ret, xorVars, nativeVars>>

\* std::string base64Decoded = base64Decode(xorDecrypted);
decryptApi_base64Decode(t) ==
    /\ pc[t] = "base64Decode"
    /\ trace' = [trace EXCEPT ![t] = Append(@, "Transcode")]
    /\ LET r == base64Decode(xorDecrypted[t])
       IN  IF r.ok
           THEN /\ base64Decoded' = [base64Decoded EXCEPT ![t] = r.val]
                /\ pc' = [pc EXCEPT ![t] = "aesDecrypt"]
                /\ UNCHANGED failedAt
           ELSE /\ failedAt' = [failedAt EXCEPT ![t] = "Transcode"]
                /\ pc' = [pc EXCEPT ![t] = "catch"]
                /\ UNCHANGED base64Decoded
    /\ UNCHANGED <<envVars, cacheVars, entry, ncalls, deviceKey, xorDecrypted,
                   aesDecrypted, jniStr, ret, xorVars, nativeVars>>

\* a faulty variant of decryptApi_aesDecrypt: the text before decoding is decrypted
decryptApi_aesDecrypt_wrongInput(t) ==
    /\ pc[t] = "aesDecrypt"
    /\ trace' = [trace EXCEPT ![t] = Append(@, "Decrypt")]
    /\ LET r == aesDecrypt(xorDecrypted[t], deviceKey[t])
       IN  IF r.ok
           THEN /\ aesDecrypted' = [aesDecrypted EXCEPT ![t] = r.val]
                /\ pc' = [pc EXCEPT ![t] = "decryptReturn"]
                /\ UNCHANGED failedAt
           ELSE /\ failedAt' = [failedAt EXCEPT ![t] = "Decrypt"]
                /\ pc' = [pc EXCEPT ![t] = "catch"]
                /\ UNCHANGED aesDecrypted
    /\ UNCHANGED <<envVars, cacheVars, entry, ncalls, deviceKey, xorDecrypted,
                   base64Decoded, jniStr, ret, xorVars, nativeVars>>

\* std::string aesDecrypted = aesDecrypt(base64Decoded, deviceKey);
decryptApi_aesDecrypt(t) ==
    /\ pc[t] = "aesDecrypt"
    /\ trace' = [trace EXCEPT ![t] = Append(@, "Decrypt")]
    /\ LET r == aesDecrypt(base64Decoded[t], deviceKey[t])
       IN  IF r.ok
           THEN /\ aesDecrypted' = [aesDecrypted EXCEPT ![t] = r.val]
                /\ pc' = [pc EXCEPT ![t] = "decryptReturn"]
                /\ UNCHANGED failedAt
           ELSE /\ failedAt' = [failedAt EXCEPT ![t] = "Decrypt"]
                /\ pc' = [pc EXCEPT ![t] = "catch"]
                /\ UNCHANGED aesDecrypted
    /\ UNCHANGED <<envVars, cacheVars, entry, ncalls, deviceKey, xorDecrypted,
                   base64Decoded, jniStr, ret, xorVars, nativeVars>>

\* return aesDecrypted;  (the JNI function's apiKey / apiUrl receives it)
decryptApi_return(t) ==
    /\ pc[t] = "decryptReturn"
    /\ jniStr' = [jniStr EXCEPT ![t] = aesDecrypted[t]]
    /\ pc' = [pc EXCEPT ![t] = "jniCheck"]
    /\ UNCHANGED <<envVars, cacheVars, entry, ncalls, deviceKey, xorDecrypted,
                   base64Decoded, aesDecrypted, ret, failedAt, trace, xorVars, nativeVars>>

\* a faulty variant of decryptApi_catch: what the stages produced so far is returned
decryptApi_catch_partial(t) ==
    /\ pc[t] = "catch"
    /\ jniStr' = [jniStr EXCEPT ![t] =
                    IF base64Decoded[t] # <<>> THEN base64Decoded[t] ELSE xorDecrypted[t]]
    /\ pc' = [pc EXCEPT ![t] = "jniCheck"]
    /\ UNCHANGED <<envVars, cacheVars, entry, ncalls, deviceKey, xorDecrypted,
                   base64Decoded, aesDecrypted, ret, failedAt, trace, xorVars, nativeVars>>

\* catch (const std::exception& e) { LOGE(...); return ""; }
decryptApi_catch(t) ==
    /\ pc[t] = "catch"
    /\ jniStr' = [jniStr EXCEPT ![t] = <<>>]
    /\ pc' = [pc EXCEPT ![t] = "jniCheck"]
    /\ UNCHANGED <<envVars, cacheVars, entry, ncalls, deviceKey, xorDecrypted,
                   base64Decoded, aesDecrypted, ret, failedAt, trace, xorVars, nativeVars>>

(***************************************************************************)
(* The JNI exports of keys.cpp.                                            *)
(***************************************************************************)
\* if (apiKey.empty()) { LOGE(...); return env->NewStringUTF(""); }
\* (the same statement in getApiKey and getApiBaseUrl)
KeyProvider_empty(t) ==
    /\ pc[t] = "jniCheck"
    /\ jniStr[t] = <<>>
    /\ ret' = [ret EXCEPT ![t] = CStr(<<>>)]
    /\ pc' = [pc EXCEPT ![t] = "done"]
    /\ UNCHANGED <<envVars, cacheVars, entry, ncalls, deviceKey, xorDecrypted,
                   base64Decoded, aesDecrypted, jniStr, failedAt, trace, xorVars, nativeVars>>

\* getApiKey: memset((void*)apiKey.data(), 0, apiKey.size());
getApiKey_memset(t) ==
    /\ pc[t] = "jniCheck"
    /\ entry[t] = "getApiKey"
    /\ jniStr[t] # <<>>
    /\ jniStr' = [jniStr EXCEPT ![t] = Memset0(@, Len(@))]
    /\ pc' = [pc EXCEPT ![t] = "jniNewString"]
    /\ UNCHANGED <<envVars, cacheVars, entry, ncalls, deviceKey, xorDecrypted,
                   base64Decoded, aesDecrypted, ret, failedAt, trace, xorVars, nativeVars>>

\* getApiKey: return env->NewStringUTF(apiKey.c_str());
getApiKey_NewStringUTF(t) ==
    /\ pc[t] = "jniNewString"
    /\ ret' = [ret EXCEPT ![t] = CStr(jniStr[t])]
    /\ pc' = [pc EXCEPT ![t] = "done"]
    /\ UNCHANGED <<envVars, cacheVars, entry, ncalls, deviceKey, xorDecrypted,
                   base64Decoded, aesDecrypted, jniStr, failedAt, trace, xorVars, nativeVars>>

\* getApiBaseUrl: return env->NewStringUTF(apiUrl.c_str());
getApiBaseUrl_NewStringUTF(t) ==
    /\ pc[t] = "jniCheck"
    /\ entry[t] = "getApiBaseUrl"
    /\ jniStr[t] # <<>>
    /\ ret' = [ret EXCEPT ![t] = CStr(jniStr[t])]
    /\ pc' = [pc EXCEPT ![t] = "done"]
    /\ UNCHANGED <<envVars, cacheVars, entry, ncalls, deviceKey, xorDecrypted,
                   base64Decoded, aesDecrypted, jniStr, failedAt, trace, xorVars, nativeVars>>

\* a faulty variant of KeyProvider_stub: a placeholder value instead of ""
KeyProvider_stub_placeholder(t, e) ==
    /\ pc[t] \in {"idle", "done"}
    /\ ncalls[t] < budget[t]
    /\ entry' = [entry EXCEPT ![t] = e]
    /\ ncalls' = [ncalls EXCEPT ![t] = @ + 1]
    /\ deviceKey' = [deviceKey EXCEPT ![t] = <<>>]
    /\ xorDecrypted' = [xorDecrypted EXCEPT ![t] = <<>>]
    /\ base64Decoded' = [base64Decoded EXCEPT ![t] = <<>>]
    /\ aesDecrypted' = [aesDecrypted EXCEPT ![t] = <<>>]
    /\ jniStr' = [jniStr EXCEPT ![t] = <<>>]
    /\ failedAt' = [failedAt EXCEPT ![t] = "none"]
    /\ trace' = [trace EXCEPT ![t] = <<>>]
    /\ ret' = [ret EXCEPT ![t] = CStr(API_KEY_TEXT)]
    /\ pc' = [pc EXCEPT ![t] = "done"]
    /\ UNCHANGED <<envVars, cacheVars, xorVars, nativeVars>>

\* getStripeKey / getCertificatePins: return env->NewStringUTF("");
KeyProvider_stub(t, e) ==
    /\ pc[t] \in {"idle", "done"}
    /\ ncalls[t] < budget[t]
    /\ entry' = [entry EXCEPT ![t] = e]
    /\ ncalls' = [ncalls EXCEPT ![t] = @ + 1]
    /\ FreshLocals(t)
    /\ trace' = [trace EXCEPT ![t] = <<>>]
    /\ pc' = [pc EXCEPT ![t] = "done"]
    /\ UNCHANGED <<envVars, cacheVars, xorVars, nativeVars>>

(***************************************************************************)
(* Specifications.                                                         *)
(***************************************************************************)
KeyNext ==
    \E t \in Threads :
        \/ \E e \in PipelineEntries : decrypt_Enter(t, e)
        \/ getDeviceKey_Fast(t)
        \/ getDeviceKey_Lock(t)
        \/ getDeviceKey_Check(t)
        \/ getDeviceKey_Identity(t)
        \/ getDeviceKey_Write(t)
        \/ getDeviceKey_Publish(t)
        \/ decryptApi_xorDecrypt(t)
        \/ decryptApi_base64Decode(t)
        \/ decryptApi_aesDecrypt(t)
        \/ decryptApi_return(t)
        \/ decryptApi_catch(t)
        \/ KeyProvider_empty(t)
        \/ getApiKey_memset(t)
        \/ getApiKey_NewStringUTF(t)
        \/ getApiBaseUrl_NewStringUTF(t)
        \/ \E e \in StubEntries : KeyProvider_stub(t, e)

NativeNext ==
    \/ getMerchantId_Enter
    \/ getMerchantId_Loop
    \/ getMerchantId_Terminate
    \/ getMerchantId_String
    \/ getMerchantId_Memset
    \/ getMerchantId_Return
    \/ NativeKeyManager_getApiKey
    \/ NativeKeys_getAny

XorNext ==
    \/ ApplyOnce
    \/ ApplyTwice

Init == KeyInit /\ XorIdle /\ NativeIdle

InitConcurrent == KeyInitConcurrent /\ XorIdle /\ NativeIdle

InitNative == NativeInit /\ XorIdle /\ KeyIdle

InitXor == XorInit /\ NativeIdle /\ KeyIdle

Spec == Init /\ [][KeyNext]_vars

SpecConcurrent == InitConcurrent /\ [][KeyNext]_vars

SpecNative == InitNative /\ [][NativeNext]_vars

SpecXor == InitXor /\ [][XorNext]_vars

(***************************************************************************)
(* Properties.                                                             *)
(***************************************************************************)
\* the order decryptApiKey / decryptApiUrl invoke the stages in
CodeOrder == <<"Derive", "Deobfuscate", "Transcode", "Decrypt">>
\* the order the design document gives
DocumentedOrder == <<"Deobfuscate", "Transcode", "Derive", "Decrypt">>

IsPrefix(s, full) == Len(s) <= Len(full) /\ s = SubSeq(full, 1, Len(s))

HasReturned(t) == pc[t] = "done" /\ entry[t] \in PipelineEntries

\* the failure kind a returned call would have to report
FailureKind(t) ==
    CASE entry[t] \in StubEntries -> "NotFound"
      [] failedAt[t] = "Derive" -> "IdentityUnavailable"
      [] failedAt[t] = "Deobfuscate" -> "InternalError"
      [] failedAt[t] = "Transcode" -> "MalformedEncoding"
      [] failedAt[t] = "Decrypt" -> "AuthenticationFailed"
      [] OTHER -> "none"

(***************************************************************************)
(* C1: when every stage of getApiKey / getApiBaseUrl succeeds and yields   *)
(* the non-empty plaintext P, the string handed to the caller equals P     *)
(* (the native copy is erased only after the caller's copy is made).       *)
(***************************************************************************)
C1_ReturnsPlaintext ==
    \A t \in Threads :
        (HasReturned(t) /\ failedAt[t] = "none" /\ aesDecrypted[t] # <<>>)
            => ret[t] = aesDecrypted[t]

(***************************************************************************)
(* C2 as written: in every lookup the stages run in the order Deobfuscate, *)
(* Transcode, Derive, Decrypt.                                             *)
(***************************************************************************)
C2_DocumentedOrder ==
    \A t \in Threads : IsPrefix(trace[t], DocumentedOrder)

(***************************************************************************)
(* C2 amended: in every lookup the stages run in the order Derive          *)
(* (device-key acquisition), Deobfuscate, Transcode, Decrypt, each after   *)
(* the one before it has completed; a lookup that returns a plaintext has  *)
(* run all four.                                                           *)
(***************************************************************************)
C2_StageOrderAsCoded ==
    \A t \in Threads :
        /\ IsPrefix(trace[t], CodeOrder)
        /\ (HasReturned(t) /\ failedAt[t] = "none") => trace[t] = CodeOrder

\* a lookup has run all four stages and returned
C2_Witness ==
    \E t \in Threads : HasReturned(t) /\ trace[t] = CodeOrder /\ failedAt[t] = "none"

(***************************************************************************)
(* C3: when a stage fails, no later stage runs, the call returns the empty *)
(* value, and no intermediate output (de-obfuscated or decoded bytes) is   *)
(* ever the result.                                                        *)
(***************************************************************************)
C3_FailureAborts ==
    \A t \in Threads :
        /\ failedAt[t] # "none" =>
              /\ trace[t] # <<>> /\ trace[t][Len(trace[t])] = failedAt[t]
              /\ pc[t] \in {"catch", "jniCheck", "done"}
              /\ aesDecrypted[t] = <<>>
              /\ pc[t] \in {"jniCheck", "done"} => jniStr[t] = <<>>
              /\ pc[t] = "done" => ret[t] = <<>>
        /\ (HasReturned(t) /\ ret[t] # <<>>) =>
              /\ ret[t] # xorDecrypted[t]
              /\ ret[t] # base64Decoded[t]

\* a lookup whose last stage failed, with both intermediate outputs produced,
\* has returned
C3_Witness ==
    \E t \in Threads :
        /\ HasReturned(t)
        /\ failedAt[t] = "Decrypt"
        /\ xorDecrypted[t] # <<>>
        /\ base64Decoded[t] # <<>>
        /\ ret[t] = <<>>

(***************************************************************************)
(* C4: after a lookup returns, on success and on failure, every            *)
(* intermediate buffer it created (de-obfuscated bytes, decoded bytes,     *)
(* native plaintext copy) holds only zero bytes.                           *)
(***************************************************************************)
C4_BuffersZeroAfterReturn ==
    \A t \in Threads :
        HasReturned(t) =>
            /\ AllZero(xorDecrypted[t])
            /\ AllZero(base64Decoded[t])
            /\ AllZero(jniStr[t])

C6_DeviceBound ==
    (mPc = "done" /\ nDevice # ProvisionedIdentity) => mRet = <<>>

(***************************************************************************)
(* C7 as written: failures are typed, so two lookups that fail for         *)
(* different reasons (a kind with no ciphertext counting as NotFound) give *)
(* the caller different outcomes.                                          *)
(***************************************************************************)
C7_TypedFailures ==
    \A t, u \in Threads :
        ( /\ pc[t] = "done" /\ pc[u] = "done"
          /\ FailureKind(t) # "none" /\ FailureKind(u) # "none"
          /\ FailureKind(t) # FailureKind(u) )
            => ret[t] # ret[u]

(***************************************************************************)
(* C7 amended: every failed lookup, whatever stage failed, and every call  *)
(* of getStripeKey / getCertificatePins gives the caller the empty string  *)
(* (the reason is only logged).                                            *)
(***************************************************************************)
C7_FailuresReturnEmpty ==
    \A t \in Threads :
        (pc[t] = "done" /\ FailureKind(t) # "none") => ret[t] = <<>>

\* two calls that failed for different reasons have both returned
C7_Witness ==
    \E t, u \in Threads :
        /\ pc[t] = "done" /\ pc[u] = "done"
        /\ FailureKind(t) = "IdentityUnavailable"
        /\ FailureKind(u) \in {"MalformedEncoding", "AuthenticationFailed"}
        /\ ret[t] = ret[u]

(***************************************************************************)
(* C8: the XOR transform is an involution: applied to its own output with  *)
(* the same non-empty key it gives the payload back, with the same length. *)
(***************************************************************************)
C8_XorInvolution ==
    /\ xStage >= 1 => Len(xOnce) = Len(xP)
    /\ xStage = 2 => xTwice = xP

\* the transform has been applied twice to a payload longer than the key,
\* which the first application changed
C8_Witness ==
    /\ xStage = 2
    /\ Len(xP) = 2
    /\ Len(xK) = 1
    /\ xOnce # xP
    /\ xTwice = xP

(***************************************************************************)
(* C9: no step changes the embedded arrays; a call starts with none of an  *)
(* earlier call's values in its locals; and a lookup hands back a          *)
(* plaintext only after this call has run the four stages on the embedded  *)
(* payload (nothing is cached between calls).                              *)
(***************************************************************************)
C9_Step ==
    /\ tables' = tables
    /\ \A t \in Threads :
          /\ (pc[t] \in {"idle", "done"} /\ pc'[t] \notin {"idle", "done"}) =>
                /\ xorDecrypted'[t] = <<>>
                /\ base64Decoded'[t] = <<>>
                /\ aesDecrypted'[t] = <<>>
                /\ jniStr'[t] = <<>>
          /\ (pc[t] # "decryptReturn" /\ pc'[t] = "decryptReturn") =>
                /\ trace'[t] = CodeOrder
                /\ xorDecrypted'[t] =
                      XorTransform(TableOf(entry'[t]), tables.OBFUSCATION_KEY)

C9_NoCaching == [][C9_Step]_vars

\* a thread's second lookup has returned a plaintext
C9_Witness ==
    \E t \in Threads :
        /\ ncalls[t] = 2
        /\ HasReturned(t)
        /\ failedAt[t] = "none"
        /\ ret[t] # <<>>
        /\ ret[t] = PlainOf(entry[t])

(***************************************************************************)
(* C10: getMerchantId returns exactly n bytes, byte i being                *)
(* payload[i] XOR key[i mod 7], also when a de-obfuscated byte is zero,    *)
(* and every index used stays inside the payload, the key and the          *)
(* n+1-byte work buffer.                                                   *)
(***************************************************************************)
C10_MerchantIdFullLength ==
    /\ \A a \in mReads :
          /\ a[1] = "payload" => a[2] < MERCHANT_ID_SIZE
          /\ a[1] = "key" => a[2] < XOR_KEY_SIZE
    /\ \A a \in mWrites : a[2] < MERCHANT_ID_SIZE + 1
    /\ (mPc = "done" /\ mEntry = "getMerchantId") =>
          /\ Len(mRet) = MERCHANT_ID_SIZE
          /\ \A i \in 0..(MERCHANT_ID_SIZE - 1) :
                mRet[i + 1] = XorByte(mPayload[i + 1], XOR_KEY[(i % XOR_KEY_SIZE) + 1])
====
